---- MODULE Spec2Model ----
(***************************************************************************)
(* Models of the four demonstration programs of the repository.  Each      *)
(* program is a separate state machine with its own specification:        *)
(*   SpecCounter  part1_race_condition.py     (Counter, run_simulation)   *)
(*   SpecBakery   part2_producer_consumer.py  (BakerySimulation)          *)
(*   SpecPhil     part3_dining_philosophers.py (DiningPhilosophers)       *)
(*   SpecPool     part4_thread_pool.py        (parallel_execution)        *)
(* The variables of the programs that a specification does not run keep   *)
(* their parked values.                                                   *)
(***************************************************************************)
EXTENDS Integers, Sequences, FiniteSets, TLC

(***************************************************************************)
(* Bounds of the model.                                                    *)
(***************************************************************************)
MaxThreads == 2
MaxIncrements == 3
MaxBasket == 2
MaxItems == 3
MaxPhilosophers == 3
MaxMeals == 3
MaxTasks == 3
MaxWorkers == 2

VARIABLES
    \* ---- part1_race_condition.py ----
    use_lock,               \* Counter.use_lock
    num_threads,            \* run_simulation's num_threads
    increments_per_thread,  \* run_simulation's increments_per_thread
    value,                  \* Counter.value
    counter_lock,           \* Counter.lock: 0 when free, else the holder
    temp,                   \* _increment_logic's local temp, per thread
    calls_done,             \* increment() calls a thread has returned from
    t_pc,                   \* position of each worker thread
    sim_pc,                 \* position of run_simulation (the main thread)
    sim_started,            \* threads started so far by the loop at line 63
    sim_result,             \* value returned at line 74
    \* ---- part2_producer_consumer.py ----
    max_basket_size,        \* maxsize of BakerySimulation.basket
    total_items,            \* BakerySimulation.total_items
    basket,                 \* contents of the queue, head first
    unfinished_tasks,       \* the queue's count of puts without task_done
    items_produced,         \* BakerySimulation.items_produced
    items_consumed,         \* BakerySimulation.items_consumed
    bakery_lock,            \* BakerySimulation.lock: "free" or its holder
    stop_event,             \* BakerySimulation.stop_event
    b_pc,                   \* position of each baker thread
    bread_id,               \* baker's local bread_id (Unbound before line 46)
    c_pc,                   \* position of each customer thread
    bread_item,             \* customer's local bread_item
    run_pc,                 \* position of BakerySimulation.run
    run_started,            \* threads started so far by the loop at line 124
    put_log,                \* items inserted by successful puts, in order
    get_log,                \* items removed by successful gets, in order
    alloc_log,              \* bread ids handed out at line 46, in order
    \* ---- part3_dining_philosophers.py ----
    num_philosophers,       \* DiningPhilosophers.num_philosophers
    meals_per_philosopher,  \* DiningPhilosophers.meals_per_philosopher
    forks,                  \* DiningPhilosophers.forks: TRUE when locked
    p_pc,                   \* position of each philosopher thread
    meal_number,            \* meals a philosopher has finished
    dine_pc,                \* position of DiningPhilosophers.run
    dine_started,           \* threads started so far by the loop at line 97
    \* ---- part4_thread_pool.py ----
    num_tasks,              \* len(tasks) of parallel_execution
    max_workers,            \* max_workers of parallel_execution
    work_queue,             \* the executor's queue of submitted work items
    futures,                \* state of the future of each task
    pool_threads,           \* worker threads the executor has created
    idle_semaphore,         \* the executor's count of idle workers
    w_pc,                   \* position of each worker thread
    w_task,                 \* the work item a worker is running (0: none)
    started_by,             \* per task, the workers that began to run it
    starts,                 \* per task, the times it was begun
    execution_log,          \* TaskProcessor.execution_log
    pool_pc,                \* position of parallel_execution
    submitted,              \* tasks submitted so far by the loop at line 181
    collected,              \* futures as_completed has yielded
    results,                \* the local list `results` (line 186)
    printed                 \* tasks whose exception line 192 has printed

cvars == <<use_lock, num_threads, increments_per_thread, value, counter_lock,
           temp, calls_done, t_pc, sim_pc, sim_started, sim_result>>

bvars == <<max_basket_size, total_items, basket, unfinished_tasks,
           items_produced, items_consumed, bakery_lock, stop_event, b_pc,
           bread_id, c_pc, bread_item, run_pc, run_started, put_log, get_log,
           alloc_log>>

pvars == <<num_philosophers, meals_per_philosopher, forks, p_pc, meal_number,
           dine_pc, dine_started>>

tvars == <<num_tasks, max_workers, work_queue, futures, pool_threads,
           idle_semaphore, w_pc, w_task, started_by, starts, execution_log,
           pool_pc, submitted, collected, results, printed>>

vars == <<cvars, bvars, pvars, tvars>>

\* The variables of the programs an action of one program leaves alone.
non_counter == <<bvars, pvars, tvars>>
non_bakery == <<cvars, pvars, tvars>>
non_phil == <<cvars, bvars, tvars>>
non_pool == <<cvars, bvars, pvars>>

(***************************************************************************)
(* Threads of the programs, placeholders of unset locals, and the state    *)
(* each program is in before it is run.                                    *)
(***************************************************************************)
Threads == 1..MaxThreads

\* Placeholder of sim_result before run_simulation has returned.
NoResult == 0 - 1

\* run(), lines 109-117: the two baker and the two customer threads.
Bakers == {"Baker-1", "Baker-2"}
Customers == {"Customer-1", "Customer-2"}

\* run(), line 124: `bakers + customers`, the order the threads are started in.
StartOrder == <<"Baker-1", "Baker-2", "Customer-1", "Customer-2">>

\* run(), lines 97-104: philosopher threads are numbered from 0.
Philosophers == 0..(MaxPhilosophers - 1)

\* parallel_execution, line 181: the tasks are numbered from 1 in the order
\* of the list.
Tasks == 1..MaxTasks

\* Worker threads in the order the executor creates them; one more than
\* the largest max_workers.
Workers == 1..(MaxWorkers + 1)

\* The wake-up item (None) that shutdown() puts on the work queue.
WakeUp == 0

\* bread_id of a baker that has not executed line 46: the name is unbound.
Unbound == 0 - 1

\* bread_item of a customer that holds no item.
NoItem == <<>>

\* The counter program before any run of it (parked in the other
\* specifications).
ParkedCounter ==
    /\ use_lock = FALSE
    /\ num_threads = 1
    /\ increments_per_thread = 0
    /\ value = 0
    /\ counter_lock = 0
    /\ temp = [t \in Threads |-> 0]
    /\ calls_done = [t \in Threads |-> 0]
    /\ t_pc = [t \in Threads |-> "unstarted"]
    /\ sim_pc = "start"
    /\ sim_started = 0
    /\ sim_result = NoResult

\* The bakery before any run of it (parked in the other specifications).
ParkedBakery ==
    /\ max_basket_size = 1
    /\ total_items = 0
    /\ basket = <<>>
    /\ unfinished_tasks = 0
    /\ items_produced = 0
    /\ items_consumed = 0
    /\ bakery_lock = "free"
    /\ stop_event = FALSE
    /\ b_pc = [b \in Bakers |-> "unstarted"]
    /\ bread_id = [b \in Bakers |-> Unbound]
    /\ c_pc = [c \in Customers |-> "unstarted"]
    /\ bread_item = [c \in Customers |-> NoItem]
    /\ run_pc = "start"
    /\ run_started = 0
    /\ put_log = <<>>
    /\ get_log = <<>>
    /\ alloc_log = <<>>

\* The table before any run of it (parked in the other specifications).
ParkedTable ==
    /\ num_philosophers = 1
    /\ meals_per_philosopher = 1
    /\ forks = [f \in Philosophers |-> FALSE]
    /\ p_pc = [i \in Philosophers |-> "unstarted"]
    /\ meal_number = [i \in Philosophers |-> 0]
    /\ dine_pc = "start"
    /\ dine_started = 0

\* The pool before any run of it (parked in the other specifications).
ParkedPool ==
    /\ num_tasks = 0
    /\ max_workers = 1
    /\ work_queue = <<>>
    /\ futures = [t \in Tasks |-> "unsubmitted"]
    /\ pool_threads = 0
    /\ idle_semaphore = 0
    /\ w_pc = [w \in Workers |-> "unspawned"]
    /\ w_task = [w \in Workers |-> 0]
    /\ started_by = [t \in Tasks |-> {}]
    /\ starts = [t \in Tasks |-> 0]
    /\ execution_log = <<>>
    /\ pool_pc = "submit"
    /\ submitted = 0
    /\ collected = {}
    /\ results = <<>>
    /\ printed = <<>>

(***************************************************************************)
(* part1_race_condition.py                                                 *)
(***************************************************************************)

CounterConstructed ==
    /\ use_lock \in BOOLEAN
    /\ num_threads \in 1..MaxThreads
    /\ increments_per_thread \in 0..MaxIncrements
    /\ value = 0
    /\ counter_lock = 0
    /\ temp = [t \in Threads |-> 0]
    /\ calls_done = [t \in Threads |-> 0]
    /\ t_pc = [t \in Threads |-> "unstarted"]
    /\ sim_pc = "start"
    /\ sim_started = 0
    /\ sim_result = NoResult

\* Mutant of Incremented: the local copy is advanced by two.
IncrementedTwice(x) == x + 2

\* The value _increment_logic computes from the value it read (line 43).
Incremented(x) == x + 1

\* Mutant of LockFree: the lock admits a thread while another holds it.
LockFreeAlways == TRUE

\* The guard of `with self.lock` (line 31): the lock is free.
LockFree == counter_lock = 0

\* Mutant of EnterIncrement: increment() goes to _increment_logic without
\* taking the lock even when use_lock is set.
EnterIncrementUnlocked == "read"

\* Position after increment() is entered (line 30): the lock is taken only
\* when use_lock is set.
EnterIncrement == IF use_lock THEN "acquire" ELSE "read"

\* run_simulation, lines 63-68: create and start the next thread.
StartThread ==
    /\ UNCHANGED non_counter
    /\ sim_pc = "start"
    /\ sim_started < num_threads
    /\ sim_started' = sim_started + 1
    /\ t_pc' = [t_pc EXCEPT ![sim_started + 1] = "loop"]
    /\ UNCHANGED <<use_lock, num_threads, increments_per_thread, value,
                   counter_lock, temp, calls_done, sim_pc, sim_result>>

\* run_simulation: the start loop is exhausted, go on to the joins.
StartDone ==
    /\ UNCHANGED non_counter
    /\ sim_pc = "start"
    /\ sim_started = num_threads
    /\ sim_pc' = "join"
    /\ UNCHANGED <<use_lock, num_threads, increments_per_thread, value,
                   counter_lock, temp, calls_done, t_pc, sim_started, sim_result>>

\* The thread target (line 65): one more increment() call, or the end of
\* the comprehension.
CallIncrement(t) ==
    /\ UNCHANGED non_counter
    /\ t_pc[t] = "loop"
    /\ t_pc' = [t_pc EXCEPT ![t] =
                   IF calls_done[t] < increments_per_thread
                   THEN EnterIncrement ELSE "finished"]
    /\ UNCHANGED <<use_lock, num_threads, increments_per_thread, value,
                   counter_lock, temp, calls_done, sim_pc, sim_started, sim_result>>

\* Counter.increment, line 31: `with self.lock` acquires the lock.
AcquireLock(t) ==
    /\ UNCHANGED non_counter
    /\ t_pc[t] = "acquire"
    /\ LockFree
    /\ counter_lock' = t
    /\ t_pc' = [t_pc EXCEPT ![t] = "read"]
    /\ UNCHANGED <<use_lock, num_threads, increments_per_thread, value,
                   temp, calls_done, sim_pc, sim_started, sim_result>>

\* _increment_logic, line 41: temp = self.value.
ReadValue(t) ==
    /\ UNCHANGED non_counter
    /\ t_pc[t] = "read"
    /\ temp' = [temp EXCEPT ![t] = value]
    /\ t_pc' = [t_pc EXCEPT ![t] = "add"]
    /\ UNCHANGED <<use_lock, num_threads, increments_per_thread, value,
                   counter_lock, calls_done, sim_pc, sim_started, sim_result>>

\* _increment_logic, lines 42-43: sleep, then temp = temp + 1.
AddOne(t) ==
    /\ UNCHANGED non_counter
    /\ t_pc[t] = "add"
    /\ temp' = [temp EXCEPT ![t] = Incremented(temp[t])]
    /\ t_pc' = [t_pc EXCEPT ![t] = "write"]
    /\ UNCHANGED <<use_lock, num_threads, increments_per_thread, value,
                   counter_lock, calls_done, sim_pc, sim_started, sim_result>>

\* _increment_logic, line 44: self.value = temp.  Without the lock the
\* call returns here; with it the lock is still to be released.
WriteValue(t) ==
    /\ UNCHANGED non_counter
    /\ t_pc[t] = "write"
    /\ value' = temp[t]
    /\ IF use_lock
       THEN /\ t_pc' = [t_pc EXCEPT ![t] = "release"]
            /\ UNCHANGED calls_done
       ELSE /\ t_pc' = [t_pc EXCEPT ![t] = "loop"]
            /\ calls_done' = [calls_done EXCEPT ![t] = @ + 1]
    /\ UNCHANGED <<use_lock, num_threads, increments_per_thread,
                   counter_lock, temp, sim_pc, sim_started, sim_result>>

\* Counter.increment, line 31-32: leaving the `with` block releases the lock.
ReleaseLock(t) ==
    /\ UNCHANGED non_counter
    /\ t_pc[t] = "release"
    /\ counter_lock' = 0
    /\ t_pc' = [t_pc EXCEPT ![t] = "loop"]
    /\ calls_done' = [calls_done EXCEPT ![t] = @ + 1]
    /\ UNCHANGED <<use_lock, num_threads, increments_per_thread, value,
                   temp, sim_pc, sim_started, sim_result>>

\* run_simulation, lines 71-72: every started thread has been joined.
JoinThreads ==
    /\ UNCHANGED non_counter
    /\ sim_pc = "join"
    /\ \A t \in 1..num_threads : t_pc[t] = "finished"
    /\ sim_pc' = "return"
    /\ UNCHANGED <<use_lock, num_threads, increments_per_thread, value,
                   counter_lock, temp, calls_done, t_pc, sim_started, sim_result>>

\* run_simulation, line 74: return counter.value.
ReturnValue ==
    /\ UNCHANGED non_counter
    /\ sim_pc = "return"
    /\ sim_result' = value
    /\ sim_pc' = "returned"
    /\ UNCHANGED <<use_lock, num_threads, increments_per_thread, value,
                   counter_lock, temp, calls_done, t_pc, sim_started>>

NextCounter ==
    \/ StartThread
    \/ StartDone
    \/ \E t \in Threads : CallIncrement(t)
    \/ \E t \in Threads : AcquireLock(t)
    \/ \E t \in Threads : ReadValue(t)
    \/ \E t \in Threads : AddOne(t)
    \/ \E t \in Threads : WriteValue(t)
    \/ \E t \in Threads : ReleaseLock(t)
    \/ JoinThreads
    \/ ReturnValue

InitCounter == CounterConstructed /\ ParkedBakery /\ ParkedTable /\ ParkedPool

SpecCounter == InitCounter /\ [][NextCounter]_vars

(***************************************************************************)
(* Claims about part1_race_condition.py                                    *)
(***************************************************************************)
TotalCalls == num_threads * increments_per_thread

AllThreadsFinished == \A t \in 1..num_threads : t_pc[t] = "finished"

\* Thread t is inside the read / add / write of _increment_logic, or has
\* written and still holds the lock.
InIncrementLogic(t) == t_pc[t] \in {"read", "add", "write", "release"}

\* C1: with use_lock set, for every number of threads and of increments per
\* thread and in every interleaving, once all threads have finished the
\* counter equals threads * increments, and that is the value
\* run_simulation returns.
C1_LockedCountExact ==
    use_lock =>
        /\ AllThreadsFinished => value = TotalCalls
        /\ sim_pc = "returned" => sim_result = TotalCalls

C1_Witness ==
    /\ use_lock
    /\ num_threads = 2
    /\ increments_per_thread = 3
    /\ sim_pc = "returned"
    /\ sim_result = 6

\* C2: with use_lock set, at most one thread is between its read of value
\* and its write-back (or anywhere in the locked section), and that thread
\* is the holder of the lock.
C2_MutualExclusion ==
    use_lock =>
        \A t \in Threads :
            InIncrementLogic(t) =>
                /\ counter_lock = t
                /\ \A u \in Threads \ {t} : ~InIncrementLogic(u)

C2_Witness ==
    /\ use_lock
    /\ \E t \in Threads, u \in Threads :
          /\ t # u
          /\ t_pc[t] = "write"
          /\ t_pc[u] = "acquire"

\* C3: without the lock the counter never counts more than the increment()
\* calls performed, and it can count fewer: the witness is a finished run
\* of at least two threads whose returned value is strictly below the
\* number of calls.
C3_UnlockedNeverOvercounts ==
    (~use_lock /\ AllThreadsFinished) =>
        /\ value <= TotalCalls
        /\ sim_pc = "returned" => sim_result <= TotalCalls

C3_Witness ==
    /\ ~use_lock
    /\ num_threads >= 2
    /\ increments_per_thread >= 1
    /\ AllThreadsFinished
    /\ sim_pc = "returned"
    /\ sim_result < TotalCalls

\* C24 as stated: without the lock, for T >= 1 threads of K >= 1 increments
\* each, once all threads have finished the counter lies between K and
\* T * K.
C24_LossBoundedByShare ==
    (~use_lock /\ increments_per_thread >= 1 /\ AllThreadsFinished) =>
        /\ increments_per_thread <= value
        /\ value <= TotalCalls

\* C24, amended: without the lock, for T >= 1 threads of K >= 1 increments
\* each, once all threads have finished the counter is at most T * K; it
\* equals K when T = 1, and with T >= 2 it is at least 2, or at least 1
\* when K = 1; the value run_simulation returns lies in the same range.
C24_LossBounded ==
    (~use_lock /\ increments_per_thread >= 1 /\ AllThreadsFinished) =>
        /\ value <= TotalCalls
        /\ num_threads = 1 => value = increments_per_thread
        /\ num_threads >= 2 =>
               value >= (IF increments_per_thread >= 2
                         THEN 2 ELSE increments_per_thread)
        /\ sim_pc = "returned" => sim_result = value

C24_Witness ==
    /\ ~use_lock
    /\ num_threads = 2
    /\ increments_per_thread = 3
    /\ AllThreadsFinished
    /\ value = 2
    /\ sim_pc = "returned"
    /\ sim_result = 2

(***************************************************************************)
(* part2_producer_consumer.py                                              *)
(***************************************************************************)

\* BakerySimulation.__init__ (lines 26-31).
BakeryConstructed ==
    /\ max_basket_size \in 1..MaxBasket
    /\ total_items \in 0..MaxItems
    /\ basket = <<>>
    /\ unfinished_tasks = 0
    /\ items_produced = 0
    /\ items_consumed = 0
    /\ bakery_lock = "free"
    /\ stop_event = FALSE
    /\ b_pc = [b \in Bakers |-> "unstarted"]
    /\ bread_id = [b \in Bakers |-> Unbound]
    /\ c_pc = [c \in Customers |-> "unstarted"]
    /\ bread_item = [c \in Customers |-> NoItem]
    /\ run_pc = "start"
    /\ run_started = 0
    /\ put_log = <<>>
    /\ get_log = <<>>
    /\ alloc_log = <<>>

\* Line 53: bread_item = f"Bread-{bread_id} by {name}".
BreadItem(id, name) == <<id, name>>

\* Mutant of BasketFull: put never finds the basket full.
BasketNeverFull == FALSE

\* queue.Queue.put (line 57) finds no free slot: the queue holds maxsize items.
BasketFull == Len(basket) >= max_basket_size

\* queue.Queue.get (line 76) and queue.Queue.empty (line 73) find no item.
BasketEmpty == Len(basket) = 0

\* Mutant of QueueGet: get takes the item at the tail (a stack).
QueueGetFromTail(q) == [item |-> q[Len(q)], rest |-> SubSeq(q, 1, Len(q) - 1)]

\* queue.Queue.get (line 76): the item returned is the head of the queue,
\* and the rest of the queue stays.
QueueGet(q) == [item |-> Head(q), rest |-> Tail(q)]

\* queue.Queue.put (line 57): the item goes to the tail of the queue.
AfterPut(q, item) == Append(q, item)

\* Mutant of BakeryLockFree: the lock admits a thread while another holds it.
BakeryLockFreeAlways == TRUE

\* The guard of `with self.lock` (lines 41 and 82): the lock is free.
BakeryLockFree == bakery_lock = "free"

\* The thread a started position stands for in the two pc functions.
StartedPc(pc, name, first) == IF name \in DOMAIN pc THEN [pc EXCEPT ![name] = first] ELSE pc

\* run(), lines 124-125: start the next thread of bakers + customers.
RunStartThread ==
    /\ run_pc = "start"
    /\ run_started < Len(StartOrder)
    /\ run_started' = run_started + 1
    /\ b_pc' = StartedPc(b_pc, StartOrder[run_started + 1], "loop")
    /\ c_pc' = StartedPc(c_pc, StartOrder[run_started + 1], "loop")
    /\ run_pc' = IF run_started + 1 = Len(StartOrder) THEN "join_bakers" ELSE "start"
    /\ UNCHANGED <<alloc_log, max_basket_size, total_items, basket, unfinished_tasks,
                   items_produced, items_consumed, bakery_lock, stop_event,
                   bread_id, bread_item, put_log, get_log>>
    /\ UNCHANGED non_bakery

\* A thread has ended: normally, or with an unhandled exception.
Ended(pc) == pc \in {"done", "fault"}

\* baker, line 40: the loop test reads stop_event.
BakerLoopTest(b) ==
    /\ b_pc[b] = "loop"
    /\ b_pc' = [b_pc EXCEPT ![b] = IF stop_event THEN "finish" ELSE "lock"]
    /\ UNCHANGED <<alloc_log, max_basket_size, total_items, basket, unfinished_tasks,
                   items_produced, items_consumed, bakery_lock, stop_event,
                   bread_id, c_pc, bread_item, run_pc, run_started, put_log, get_log>>
    /\ UNCHANGED non_bakery

\* baker, lines 41-42: `with self.lock` acquires the lock and the baker
\* evaluates `self.items_produced >= self.total_items`.  items_produced is
\* written only at line 47, so the value read here is the one the baker
\* acts on at line 43 or at line 46.
BakerAcquire(b) ==
    /\ b_pc[b] = "lock"
    /\ BakeryLockFree
    /\ bakery_lock' = b
    /\ b_pc' = [b_pc EXCEPT ![b] =
                   IF items_produced >= total_items THEN "stop" ELSE "alloc"]
    /\ UNCHANGED <<alloc_log, max_basket_size, total_items, basket, unfinished_tasks,
                   items_produced, items_consumed, stop_event,
                   bread_id, c_pc, bread_item, run_pc, run_started, put_log, get_log>>
    /\ UNCHANGED non_bakery

\* baker, lines 43-44: everything is allocated: set stop_event and break
\* (leaving the `with` block releases the lock).
BakerStop(b) ==
    /\ b_pc[b] = "stop"
    /\ stop_event' = TRUE
    /\ bakery_lock' = "free"
    /\ b_pc' = [b_pc EXCEPT ![b] = "finish"]
    /\ UNCHANGED <<alloc_log, max_basket_size, total_items, basket, unfinished_tasks,
                   items_produced, items_consumed,
                   bread_id, c_pc, bread_item, run_pc, run_started, put_log, get_log>>
    /\ UNCHANGED non_bakery

\* baker, lines 46-47: allocate the next bread id and release the lock.
BakerAllocate(b) ==
    /\ b_pc[b] = "alloc"
    /\ bread_id' = [bread_id EXCEPT ![b] = items_produced]
    /\ alloc_log' = Append(alloc_log, items_produced)
    /\ items_produced' = items_produced + 1
    /\ bakery_lock' = "free"
    /\ b_pc' = [b_pc EXCEPT ![b] = "put"]
    /\ UNCHANGED <<max_basket_size, total_items, basket, unfinished_tasks,
                   items_consumed, stop_event,
                   c_pc, bread_item, run_pc, run_started, put_log, get_log>>
    /\ UNCHANGED non_bakery

\* baker, lines 50-59: prepare the bread, and put it into the basket once
\* there is room.
BakerPut(b) ==
    /\ b_pc[b] = "put"
    /\ ~BasketFull
    /\ basket' = AfterPut(basket, BreadItem(bread_id[b], b))
    /\ put_log' = Append(put_log, BreadItem(bread_id[b], b))
    /\ unfinished_tasks' = unfinished_tasks + 1
    /\ b_pc' = [b_pc EXCEPT ![b] = "loop"]
    /\ UNCHANGED <<alloc_log, max_basket_size, total_items,
                   items_produced, items_consumed, bakery_lock, stop_event,
                   bread_id, c_pc, bread_item, run_pc, run_started, get_log>>
    /\ UNCHANGED non_bakery

\* baker, lines 57, 60-62: the put times out on a full basket (queue.Full),
\* the baker prints the warning and continues with the next loop test.
BakerPutTimeout(b) ==
    /\ b_pc[b] = "put"
    /\ BasketFull
    /\ b_pc' = [b_pc EXCEPT ![b] = "loop"]
    /\ UNCHANGED <<alloc_log, max_basket_size, total_items, basket, unfinished_tasks,
                   items_produced, items_consumed, bakery_lock, stop_event,
                   bread_id, c_pc, bread_item, run_pc, run_started, put_log, get_log>>
    /\ UNCHANGED non_bakery

\* baker, line 64: the final report reads bread_id; with the name unbound
\* the thread ends with UnboundLocalError.
BakerFinish(b) ==
    /\ b_pc[b] = "finish"
    /\ b_pc' = [b_pc EXCEPT ![b] = IF bread_id[b] = Unbound THEN "fault" ELSE "done"]
    /\ UNCHANGED <<alloc_log, max_basket_size, total_items, basket, unfinished_tasks,
                   items_produced, items_consumed, bakery_lock, stop_event,
                   bread_id, c_pc, bread_item, run_pc, run_started, put_log, get_log>>
    /\ UNCHANGED non_bakery

\* customer, line 73, first operand: `not self.stop_event.is_set()`.
CustomerLoopTest(c) ==
    /\ c_pc[c] = "loop"
    /\ c_pc' = [c_pc EXCEPT ![c] = IF stop_event THEN "test_empty" ELSE "get"]
    /\ UNCHANGED <<alloc_log, max_basket_size, total_items, basket, unfinished_tasks,
                   items_produced, items_consumed, bakery_lock, stop_event, b_pc,
                   bread_id, bread_item, run_pc, run_started, put_log, get_log>>
    /\ UNCHANGED non_bakery

\* customer, line 73, second operand: `not self.basket.empty()`; the loop
\* is left when the basket is empty.
CustomerEmptyTest(c) ==
    /\ c_pc[c] = "test_empty"
    /\ c_pc' = [c_pc EXCEPT ![c] = IF BasketEmpty THEN "done" ELSE "get"]
    /\ UNCHANGED <<alloc_log, max_basket_size, total_items, basket, unfinished_tasks,
                   items_produced, items_consumed, bakery_lock, stop_event, b_pc,
                   bread_id, bread_item, run_pc, run_started, put_log, get_log>>
    /\ UNCHANGED non_bakery

\* customer, line 76: get returns the head of the basket.
CustomerGet(c) ==
    /\ c_pc[c] = "get"
    /\ ~BasketEmpty
    /\ bread_item' = [bread_item EXCEPT ![c] = QueueGet(basket).item]
    /\ get_log' = Append(get_log, QueueGet(basket).item)
    /\ basket' = QueueGet(basket).rest
    /\ c_pc' = [c_pc EXCEPT ![c] = "eat"]
    /\ UNCHANGED <<alloc_log, max_basket_size, total_items, unfinished_tasks,
                   items_produced, items_consumed, bakery_lock, stop_event, b_pc,
                   bread_id, run_pc, run_started, put_log>>
    /\ UNCHANGED non_bakery

\* customer, lines 76, 91: the get times out on an empty basket (queue.Empty).
CustomerGetTimeout(c) ==
    /\ c_pc[c] = "get"
    /\ BasketEmpty
    /\ c_pc' = [c_pc EXCEPT ![c] = "except"]
    /\ UNCHANGED <<alloc_log, max_basket_size, total_items, basket, unfinished_tasks,
                   items_produced, items_consumed, bakery_lock, stop_event, b_pc,
                   bread_id, bread_item, run_pc, run_started, put_log, get_log>>
    /\ UNCHANGED non_bakery

\* customer, lines 92-94: after queue.Empty, break when stop_event is set,
\* else go round the loop again.
CustomerAfterEmpty(c) ==
    /\ c_pc[c] = "except"
    /\ c_pc' = [c_pc EXCEPT ![c] = IF stop_event THEN "done" ELSE "loop"]
    /\ UNCHANGED <<alloc_log, max_basket_size, total_items, basket, unfinished_tasks,
                   items_produced, items_consumed, bakery_lock, stop_event, b_pc,
                   bread_id, bread_item, run_pc, run_started, put_log, get_log>>
    /\ UNCHANGED non_bakery

\* customer, lines 79-82: eat, then `with self.lock` acquires the lock.
CustomerAcquire(c) ==
    /\ c_pc[c] = "eat"
    /\ BakeryLockFree
    /\ bakery_lock' = c
    /\ c_pc' = [c_pc EXCEPT ![c] = "count"]
    /\ UNCHANGED <<alloc_log, max_basket_size, total_items, basket, unfinished_tasks,
                   items_produced, items_consumed, stop_event, b_pc,
                   bread_id, bread_item, run_pc, run_started, put_log, get_log>>
    /\ UNCHANGED non_bakery

\* customer, lines 82-83: count the item and release the lock.
CustomerCount(c) ==
    /\ c_pc[c] = "count"
    /\ items_consumed' = items_consumed + 1
    /\ bakery_lock' = "free"
    /\ c_pc' = [c_pc EXCEPT ![c] = "task_done"]
    /\ UNCHANGED <<alloc_log, max_basket_size, total_items, basket, unfinished_tasks,
                   items_produced, stop_event, b_pc,
                   bread_id, bread_item, run_pc, run_started, put_log, get_log>>
    /\ UNCHANGED non_bakery

\* customer, lines 85-89: report, then basket.task_done().
CustomerTaskDone(c) ==
    /\ c_pc[c] = "task_done"
    /\ unfinished_tasks' = unfinished_tasks - 1
    /\ bread_item' = [bread_item EXCEPT ![c] = NoItem]
    /\ c_pc' = [c_pc EXCEPT ![c] = "loop"]
    /\ UNCHANGED <<alloc_log, max_basket_size, total_items, basket,
                   items_produced, items_consumed, bakery_lock, stop_event, b_pc,
                   bread_id, run_pc, run_started, put_log, get_log>>
    /\ UNCHANGED non_bakery

\* run(), lines 128-129: both bakers have been joined.
RunJoinBakers ==
    /\ run_pc = "join_bakers"
    /\ \A b \in Bakers : Ended(b_pc[b])
    /\ run_pc' = "set_stop"
    /\ UNCHANGED <<alloc_log, max_basket_size, total_items, basket, unfinished_tasks,
                   items_produced, items_consumed, bakery_lock, stop_event, b_pc,
                   bread_id, c_pc, bread_item, run_started, put_log, get_log>>
    /\ UNCHANGED non_bakery

\* run(), line 132: self.stop_event.set().
RunSetStop ==
    /\ run_pc = "set_stop"
    /\ stop_event' = TRUE
    /\ run_pc' = "join_customers"
    /\ UNCHANGED <<alloc_log, max_basket_size, total_items, basket, unfinished_tasks,
                   items_produced, items_consumed, bakery_lock, b_pc,
                   bread_id, c_pc, bread_item, run_started, put_log, get_log>>
    /\ UNCHANGED non_bakery

\* run(), lines 135-136: both customers have been joined.
RunJoinCustomers ==
    /\ run_pc = "join_customers"
    /\ \A c \in Customers : Ended(c_pc[c])
    /\ run_pc' = "basket_join"
    /\ UNCHANGED <<alloc_log, max_basket_size, total_items, basket, unfinished_tasks,
                   items_produced, items_consumed, bakery_lock, stop_event, b_pc,
                   bread_id, c_pc, bread_item, run_started, put_log, get_log>>
    /\ UNCHANGED non_bakery

\* run(), lines 139-151: basket.join() returns once every item put has been
\* marked done; the summary follows.
RunBasketJoin ==
    /\ run_pc = "basket_join"
    /\ unfinished_tasks = 0
    /\ run_pc' = "summary"
    /\ UNCHANGED <<alloc_log, max_basket_size, total_items, basket, unfinished_tasks,
                   items_produced, items_consumed, bakery_lock, stop_event, b_pc,
                   bread_id, c_pc, bread_item, run_started, put_log, get_log>>
    /\ UNCHANGED non_bakery

NextBakery ==
    \/ RunStartThread
    \/ \E b \in Bakers : BakerLoopTest(b)
    \/ \E b \in Bakers : BakerAcquire(b)
    \/ \E b \in Bakers : BakerStop(b)
    \/ \E b \in Bakers : BakerAllocate(b)
    \/ \E b \in Bakers : BakerPut(b)
    \/ \E b \in Bakers : BakerPutTimeout(b)
    \/ \E b \in Bakers : BakerFinish(b)
    \/ \E c \in Customers : CustomerLoopTest(c)
    \/ \E c \in Customers : CustomerEmptyTest(c)
    \/ \E c \in Customers : CustomerGet(c)
    \/ \E c \in Customers : CustomerGetTimeout(c)
    \/ \E c \in Customers : CustomerAfterEmpty(c)
    \/ \E c \in Customers : CustomerAcquire(c)
    \/ \E c \in Customers : CustomerCount(c)
    \/ \E c \in Customers : CustomerTaskDone(c)
    \/ RunJoinBakers
    \/ RunSetStop
    \/ RunJoinCustomers
    \/ RunBasketJoin

InitBakery == BakeryConstructed /\ ParkedCounter /\ ParkedTable /\ ParkedPool

SpecBakery == InitBakery /\ [][NextBakery]_vars

(***************************************************************************)
(* Claims about part2_producer_consumer.py                                 *)
(***************************************************************************)
IsPrefix(s, t) == Len(s) <= Len(t) /\ s = SubSeq(t, 1, Len(s))

CustomerLeaves(c) == c_pc[c] # "done" /\ c_pc'[c] = "done"

\* C4: in every reachable state the basket holds at least 0 and at most
\* max_basket_size items: successful gets never outnumber successful puts
\* and what the basket holds is exactly the difference.
C4_BasketBounded ==
    /\ Len(basket) <= max_basket_size
    /\ Len(get_log) <= Len(put_log)
    /\ Len(basket) = Len(put_log) - Len(get_log)

C4_Witness ==
    /\ max_basket_size = 2
    /\ Len(basket) = 2
    /\ \E b \in Bakers : b_pc[b] = "put"
    /\ \E c \in Customers : c_pc[c] = "get"

\* C5: the basket is FIFO across all bakers and customers: the sequence of
\* items removed by successful gets is always a prefix of the sequence of
\* items inserted by successful puts.
C5_Fifo == IsPrefix(get_log, put_log)

C5_Witness ==
    /\ Len(get_log) >= 2
    /\ get_log[1][2] # get_log[2][2]
    /\ get_log[1][1] > get_log[2][1]
    /\ bread_item["Customer-1"] = get_log[2]
    /\ bread_item["Customer-2"] = get_log[1]

\* C6: whenever run() reaches its summary, items_produced and
\* items_consumed both equal total_items and the basket is empty.
C6_SummaryCountsComplete ==
    run_pc = "summary" =>
        /\ items_produced = total_items
        /\ items_consumed = total_items
        /\ basket = <<>>

\* C7: once stop_event is set it is never cleared and no baker inserts a
\* further item into the basket.
C7_StopEndsProduction ==
    [][stop_event => (stop_event' /\ put_log' = put_log)]_vars

\* C8: a customer leaves its consume loop only in a state where stop_event
\* is set and the basket is empty.
C8_CustomerLeavesDrained ==
    [][\A c \in Customers :
          CustomerLeaves(c) => (stop_event /\ BasketEmpty)]_vars

\* C17: run() always terminates: it never comes to rest anywhere but at its
\* summary; in particular the final basket.join() never blocks forever on an
\* item that no customer is left to consume.
C17_RunTerminates == run_pc = "summary" \/ ENABLED NextBakery

\* C18: a put that times out does not lose its item: once both bakers have
\* finished, the number of successful puts equals items_produced.
C18_NoItemLost ==
    (\A b \in Bakers : Ended(b_pc[b])) => Len(put_log) = items_produced

\* C19: no baker thread ends with an unhandled fault: line 64 is always
\* reached with bread_id bound.
C19_BakersFinishClean == \A b \in Bakers : b_pc[b] # "fault"

\* C20: items_produced never exceeds total_items; the bread ids handed out
\* are exactly 0..items_produced-1, each handed out once, so two bakers never
\* hold the same id; at most one baker is between the test of line 42 and the
\* increment of line 47; and when both bakers have finished items_produced
\* equals total_items.
C20_IdsAllocatedOnce ==
    /\ items_produced <= total_items
    /\ Len(alloc_log) = items_produced
    /\ \A k \in 1..Len(alloc_log) : alloc_log[k] = k - 1
    /\ \A b \in Bakers :
          bread_id[b] # Unbound => bread_id[b] \in 0..(items_produced - 1)
    /\ \A b1, b2 \in Bakers :
          (b1 # b2 /\ bread_id[b1] # Unbound) => bread_id[b1] # bread_id[b2]
    /\ \A b1, b2 \in Bakers :
          (b_pc[b1] \in {"stop", "alloc"} /\ b_pc[b2] \in {"stop", "alloc"})
              => b1 = b2
    /\ (\A b \in Bakers : Ended(b_pc[b])) => items_produced = total_items

C20_Witness ==
    /\ total_items = 3
    /\ items_produced = 3
    /\ \A b \in Bakers : b_pc[b] = "done"
    /\ bread_id["Baker-1"] = 1
    /\ bread_id["Baker-2"] = 2

(***************************************************************************)
(* part3_dining_philosophers.py                                            *)
(***************************************************************************)

\* DiningPhilosophers.__init__ (lines 26-30): every fork is an unlocked
\* threading.Lock.
TableConstructed ==
    /\ num_philosophers \in 1..MaxPhilosophers
    /\ meals_per_philosopher \in 1..MaxMeals
    /\ forks = [f \in Philosophers |-> FALSE]
    /\ p_pc = [i \in Philosophers |-> "unstarted"]
    /\ meal_number = [i \in Philosophers |-> 0]
    /\ dine_pc = "start"
    /\ dine_started = 0

Min2(a, b) == IF a <= b THEN a ELSE b
Max2(a, b) == IF a >= b THEN a ELSE b

\* Lines 40-41.
LeftFork(i) == i
RightFork(i) == (i + 1) % num_philosophers

\* Mutant of ForkOrder: every philosopher takes its left fork first.
ForkOrderLeftFirst(i) == <<LeftFork(i), RightFork(i)>>

\* Lines 45-46: the lower-numbered fork is picked up first.
ForkOrder(i) == <<Min2(LeftFork(i), RightFork(i)), Max2(LeftFork(i), RightFork(i))>>

FirstFork(i) == ForkOrder(i)[1]
SecondFork(i) == ForkOrder(i)[2]

\* Mutant of ForkFree: acquire() succeeds on a fork that is locked.
ForkFreeAlways(f) == TRUE

\* The guard of forks[f].acquire() (lines 62 and 65): the lock is unlocked.
ForkFree(f) == ~forks[f]

\* Mutant of MoreMeals: the loop of line 52 never runs out.
MoreMealsAlways(i) == TRUE

\* Line 52: `for meal_number in range(self.meals_per_philosopher)` has a
\* further iteration after the one that is ending.
MoreMeals(i) == meal_number[i] + 1 < meals_per_philosopher

\* run(), lines 97-105: create and start the next philosopher thread.
DineStartThread ==
    /\ dine_pc = "start"
    /\ dine_started < num_philosophers
    /\ p_pc' = [p_pc EXCEPT ![dine_started] = "thinking"]
    /\ dine_started' = dine_started + 1
    /\ dine_pc' = IF dine_started + 1 = num_philosophers THEN "join" ELSE "start"
    /\ UNCHANGED <<num_philosophers, meals_per_philosopher, forks, meal_number>>
    /\ UNCHANGED non_phil

\* philosopher, lines 53-59: think, then become hungry.
Think(i) ==
    /\ p_pc[i] = "thinking"
    /\ p_pc' = [p_pc EXCEPT ![i] = "hungry"]
    /\ UNCHANGED <<num_philosophers, meals_per_philosopher, forks, meal_number,
                   dine_pc, dine_started>>
    /\ UNCHANGED non_phil

\* philosopher, line 62: first_fork.acquire() blocks until the lock is free.
AcquireFirst(i) ==
    /\ p_pc[i] = "hungry"
    /\ ForkFree(FirstFork(i))
    /\ forks' = [forks EXCEPT ![FirstFork(i)] = TRUE]
    /\ p_pc' = [p_pc EXCEPT ![i] = "wait_second"]
    /\ UNCHANGED <<num_philosophers, meals_per_philosopher, meal_number,
                   dine_pc, dine_started>>
    /\ UNCHANGED non_phil

\* philosopher, line 65: second_fork.acquire() blocks until the lock is free.
AcquireSecond(i) ==
    /\ p_pc[i] = "wait_second"
    /\ ForkFree(SecondFork(i))
    /\ forks' = [forks EXCEPT ![SecondFork(i)] = TRUE]
    /\ p_pc' = [p_pc EXCEPT ![i] = "eating"]
    /\ UNCHANGED <<num_philosophers, meals_per_philosopher, meal_number,
                   dine_pc, dine_started>>
    /\ UNCHANGED non_phil

\* philosopher, lines 69-74: eat, then second_fork.release().
ReleaseSecond(i) ==
    /\ p_pc[i] = "eating"
    /\ forks' = [forks EXCEPT ![SecondFork(i)] = FALSE]
    /\ p_pc' = [p_pc EXCEPT ![i] = "releasing"]
    /\ UNCHANGED <<num_philosophers, meals_per_philosopher, meal_number,
                   dine_pc, dine_started>>
    /\ UNCHANGED non_phil

\* philosopher, lines 77-82: first_fork.release() ends the meal; the loop
\* goes on with the next meal or the philosopher leaves the table.
ReleaseFirst(i) ==
    /\ p_pc[i] = "releasing"
    /\ forks' = [forks EXCEPT ![FirstFork(i)] = FALSE]
    /\ meal_number' = [meal_number EXCEPT ![i] = @ + 1]
    /\ p_pc' = [p_pc EXCEPT ![i] =
                   IF MoreMeals(i) THEN "thinking" ELSE "done"]
    /\ UNCHANGED <<num_philosophers, meals_per_philosopher, dine_pc, dine_started>>
    /\ UNCHANGED non_phil

\* run(), lines 108-115: every philosopher thread has been joined.
DineJoin ==
    /\ dine_pc = "join"
    /\ \A i \in 0..(num_philosophers - 1) : p_pc[i] = "done"
    /\ dine_pc' = "complete"
    /\ UNCHANGED <<num_philosophers, meals_per_philosopher, forks, p_pc,
                   meal_number, dine_started>>
    /\ UNCHANGED non_phil

\* The steps of philosopher thread i.
Philosopher(i) ==
    \/ Think(i)
    \/ AcquireFirst(i)
    \/ AcquireSecond(i)
    \/ ReleaseSecond(i)
    \/ ReleaseFirst(i)

\* The steps of run().
DineRun == DineStartThread \/ DineJoin

NextPhil ==
    \/ DineStartThread
    \/ \E i \in Philosophers : Think(i)
    \/ \E i \in Philosophers : AcquireFirst(i)
    \/ \E i \in Philosophers : AcquireSecond(i)
    \/ \E i \in Philosophers : ReleaseSecond(i)
    \/ \E i \in Philosophers : ReleaseFirst(i)
    \/ DineJoin

InitPhil == TableConstructed /\ ParkedCounter /\ ParkedBakery /\ ParkedPool

SpecPhil == InitPhil /\ [][NextPhil]_vars

\* Every thread that can take a step eventually takes one.
SpecPhilFair ==
    /\ SpecPhil
    /\ \A i \in Philosophers : WF_vars(Philosopher(i))
    /\ WF_vars(DineRun)

(***************************************************************************)
(* Claims about part3_dining_philosophers.py                               *)
(***************************************************************************)
Seated == 0..(num_philosophers - 1)

\* Philosopher i waits in acquire() for a fork that is locked.
Blocked(i) ==
    \/ p_pc[i] = "hungry" /\ forks[FirstFork(i)]
    \/ p_pc[i] = "wait_second" /\ forks[SecondFork(i)]

AllMealsEaten == \A i \in Seated : meal_number[i] = meals_per_philosopher

\* C9: with at least 3 philosophers no deadlock is reachable: there is no
\* state in which some philosopher has not finished and every unfinished
\* philosopher is blocked waiting for a fork.
C9_NoDeadlock ==
    num_philosophers >= 3 =>
        ~ /\ \E i \in Seated : p_pc[i] # "done"
          /\ \A i \in Seated : p_pc[i] # "done" => Blocked(i)

C9_Witness ==
    /\ num_philosophers = 3
    /\ Blocked(0)
    /\ Blocked(2)
    /\ p_pc[0] = "wait_second"
    /\ p_pc[1] = "wait_second"

\* C10: with at least 3 philosophers, under weak fairness of every thread,
\* every philosopher eventually completes all its meals and run() returns.
C10_AllEventuallyDine ==
    num_philosophers >= 3 => <>(dine_pc = "complete" /\ AllMealsEaten)

C10_Witness ==
    /\ num_philosophers = 3
    /\ meals_per_philosopher = 3
    /\ dine_pc = "complete"
    /\ AllMealsEaten

\* The forks philosopher i has acquired and not yet released (lines 62-77).
HeldForks(i) ==
    IF p_pc[i] = "eating" THEN {FirstFork(i), SecondFork(i)}
    ELSE IF p_pc[i] \in {"wait_second", "releasing"} THEN {FirstFork(i)}
    ELSE {}

\* The fork philosopher i is about to acquire, if any.
WaitedFork(i) ==
    IF p_pc[i] = "hungry" THEN {FirstFork(i)}
    ELSE IF p_pc[i] = "wait_second" THEN {SecondFork(i)}
    ELSE {}

\* C11: with at least 2 philosophers the two forks are acquired in strictly
\* increasing index order: the first fork has a strictly smaller index than
\* the second (philosopher N-1 takes fork 0 before fork N-1), and a
\* philosopher that waits for a fork holds no fork with an index greater
\* than or equal to it; the forks it holds are locked.
C11_AscendingForkOrder ==
    num_philosophers >= 2 =>
        \A i \in Seated :
            /\ FirstFork(i) < SecondFork(i)
            /\ \A w \in WaitedFork(i) : \A h \in HeldForks(i) : h < w
            /\ \A h \in HeldForks(i) : forks[h]
            /\ i = num_philosophers - 1 =>
                   FirstFork(i) = 0 /\ SecondFork(i) = num_philosophers - 1

C11_Witness ==
    /\ num_philosophers = 3
    /\ p_pc[2] = "wait_second"
    /\ HeldForks(2) = {0}
    /\ WaitedFork(2) = {2}
    /\ p_pc[1] = "eating"

\* The phase changes of philosopher i that follow the cycle of lines 52-82:
\* thinking, acquiring the first fork, acquiring the second fork, eating,
\* releasing, and then thinking again or done; a meal is counted exactly
\* when the cycle closes.
PhaseStep(i) ==
    \/ p_pc'[i] = p_pc[i] /\ meal_number'[i] = meal_number[i]
    \/ /\ meal_number'[i] = meal_number[i]
       /\ <<p_pc[i], p_pc'[i]>> \in
              {<<"unstarted", "thinking">>, <<"thinking", "hungry">>,
               <<"hungry", "wait_second">>, <<"wait_second", "eating">>,
               <<"eating", "releasing">>}
    \/ /\ p_pc[i] = "releasing"
       /\ meal_number'[i] = meal_number[i] + 1
       /\ \/ p_pc'[i] = "thinking" /\ meal_number'[i] < meals_per_philosopher
          \/ p_pc'[i] = "done" /\ meal_number'[i] = meals_per_philosopher

\* C21: every philosopher goes through the phases thinking, acquiring the
\* first fork, acquiring the second fork, eating, releasing, thinking, ...
\* in this order without skipping one; it never closes more than
\* meals_per_philosopher cycles, it is done exactly when it has closed
\* meals_per_philosopher cycles, and once done it takes no further step.
C21_PhaseCycle ==
    /\ [](\A i \in Seated :
             /\ meal_number[i] <= meals_per_philosopher
             /\ p_pc[i] = "done" <=> meal_number[i] = meals_per_philosopher)
    /\ [][\A i \in Seated : PhaseStep(i)]_vars
    /\ [][\A i \in Seated :
             p_pc[i] = "done" =>
                 (p_pc'[i] = "done" /\ meal_number'[i] = meal_number[i])]_vars

C21_Witness ==
    /\ num_philosophers = 3
    /\ meals_per_philosopher = 3
    /\ p_pc[0] = "done"
    /\ meal_number[0] = 3
    /\ p_pc[1] = "eating"
    /\ meal_number[1] = 1
    /\ p_pc[2] = "thinking"
    /\ meal_number[2] = 2

\* The forks of philosopher i (lines 40-41).
OwnForks(i) == {LeftFork(i), RightFork(i)}

\* C22: each fork is held by at most one philosopher and is locked exactly
\* when some philosopher holds it; a philosopher eats only while both of its
\* forks are locked and held by it, so two philosophers that share a fork
\* never eat at the same time; a philosopher that is thinking or done holds
\* no fork; and when all philosophers are done every fork is free.
C22_ForkExclusion ==
    /\ \A i, j \in Seated : i # j => HeldForks(i) \cap HeldForks(j) = {}
    /\ \A f \in Seated : forks[f] <=> \E i \in Seated : f \in HeldForks(i)
    /\ \A i \in Seated :
          p_pc[i] = "eating" =>
              /\ HeldForks(i) = OwnForks(i)
              /\ \A f \in OwnForks(i) : forks[f]
              /\ \A j \in Seated :
                    (j # i /\ OwnForks(i) \cap OwnForks(j) # {})
                        => p_pc[j] # "eating"
    /\ \A i \in Seated :
          p_pc[i] \in {"thinking", "done"} =>
              /\ HeldForks(i) = {}
              /\ \A f \in OwnForks(i) :
                    forks[f] => \E j \in Seated : j # i /\ f \in HeldForks(j)
    /\ (\A i \in Seated : p_pc[i] = "done") => \A f \in Seated : ~forks[f]

C22_Witness ==
    /\ num_philosophers = 3
    /\ p_pc[1] = "eating"
    /\ p_pc[2] = "wait_second"
    /\ p_pc[0] = "hungry"
    /\ \A f \in Seated : forks[f]
    /\ meal_number[1] = 1

\* C23: for every table of at least 1 philosopher (the tables of 1 and 2
\* philosophers included) no deadlock is reachable: there is no state in
\* which some philosopher has not finished and every unfinished philosopher
\* is blocked waiting for a fork.
C23_NoDeadlockAnyTable ==
    (num_philosophers >= 1 /\ meals_per_philosopher >= 1) =>
        ((\E i \in Seated : p_pc[i] # "done")
            => \E i \in Seated : p_pc[i] # "done" /\ ~Blocked(i))

(***************************************************************************)
(* part4_thread_pool.py: parallel_execution over                           *)
(* concurrent.futures.ThreadPoolExecutor                                   *)
(***************************************************************************)

\* parallel_execution is entered (lines 161-180): the executor is new, no
\* task is submitted.
PoolConstructed ==
    /\ num_tasks \in 0..MaxTasks
    /\ max_workers \in 1..MaxWorkers
    /\ work_queue = <<>>
    /\ futures = [t \in Tasks |-> "unsubmitted"]
    /\ pool_threads = 0
    /\ idle_semaphore = 0
    /\ w_pc = [w \in Workers |-> "unspawned"]
    /\ w_task = [w \in Workers |-> 0]
    /\ started_by = [t \in Tasks |-> {}]
    /\ starts = [t \in Tasks |-> 0]
    /\ execution_log = <<>>
    /\ pool_pc = "submit"
    /\ submitted = 0
    /\ collected = {}
    /\ results = <<>>
    /\ printed = <<>>

Submitted == 1..num_tasks

\* The future of task t holds a result or an exception.
FutureDone(t) == futures[t] \in {"value", "exception"}

\* Mutant of CanSpawn: the executor creates a thread for every submit.
CanSpawnAlways == TRUE

\* ThreadPoolExecutor(max_workers) (line 178): submit creates a worker thread
\* only while fewer than max_workers exist.
CanSpawn == pool_threads < max_workers

\* Mutant of WorkQueueGet: the work item stays on the queue.
WorkQueueGetKeepsItem(q) == [item |-> Head(q), rest |-> q]

\* A worker takes the work item at the head of the executor's queue.
WorkQueueGet(q) == [item |-> Head(q), rest |-> Tail(q)]

\* Mutant of WorkerAfterTask: a task's exception ends the worker thread.
WorkerDiesOnException(raised) == IF raised THEN "exited" ELSE "waiting"

\* The executor's worker stores a task's exception in the future and goes
\* on with the next work item, as it does after a result (line 182).
WorkerAfterTask(raised) == "waiting"

\* Mutant of HandlerCatches: line 191 catches nothing.
HandlerCatchesNothing(state) == FALSE

\* Lines 188-192: `except Exception` catches the exception future.result()
\* re-raises.
HandlerCatches(state) == state = "exception"

\* Mutant of AfterAppend: the result is not appended.
AfterAppendNothing(list, item) == list

\* Line 190: results.append(result).
AfterAppend(list, item) == Append(list, item)

\* Lines 181-183: executor.submit puts the work item on the queue; the
\* executor takes an idle worker's token or, if there is none, creates a
\* worker thread while it may.
SubmitTask ==
    /\ pool_pc = "submit"
    /\ submitted < num_tasks
    /\ submitted' = submitted + 1
    /\ futures' = [futures EXCEPT ![submitted + 1] = "pending"]
    /\ work_queue' = Append(work_queue, submitted + 1)
    /\ IF idle_semaphore > 0
       THEN /\ idle_semaphore' = idle_semaphore - 1
            /\ UNCHANGED <<pool_threads, w_pc>>
       ELSE IF CanSpawn
       THEN /\ pool_threads' = pool_threads + 1
            /\ w_pc' = [w_pc EXCEPT ![pool_threads + 1] = "waiting"]
            /\ UNCHANGED idle_semaphore
       ELSE UNCHANGED <<idle_semaphore, pool_threads, w_pc>>
    /\ UNCHANGED <<num_tasks, max_workers, w_task, started_by, starts,
                   execution_log, pool_pc, collected, results, printed>>
    /\ UNCHANGED non_pool

\* Lines 181-186: the submit loop is exhausted; results = [].
SubmitDone ==
    /\ pool_pc = "submit"
    /\ submitted = num_tasks
    /\ pool_pc' = "collect"
    /\ UNCHANGED <<num_tasks, max_workers, work_queue, futures, pool_threads,
                   idle_semaphore, w_pc, w_task, started_by, starts,
                   execution_log, submitted, collected, results, printed>>
    /\ UNCHANGED non_pool

\* A worker takes the next work item and begins to run the task (the call
\* submitted at line 182).
WorkerTake(w) ==
    /\ w_pc[w] = "waiting"
    /\ work_queue # <<>>
    /\ WorkQueueGet(work_queue).item # WakeUp
    /\ work_queue' = WorkQueueGet(work_queue).rest
    /\ w_task' = [w_task EXCEPT ![w] = WorkQueueGet(work_queue).item]
    /\ futures' = [futures EXCEPT ![WorkQueueGet(work_queue).item] = "running"]
    /\ started_by' = [started_by EXCEPT ![WorkQueueGet(work_queue).item] = @ \cup {w}]
    /\ starts' = [starts EXCEPT ![WorkQueueGet(work_queue).item] = @ + 1]
    /\ w_pc' = [w_pc EXCEPT ![w] = "running"]
    /\ UNCHANGED <<num_tasks, max_workers, pool_threads, idle_semaphore,
                   execution_log, pool_pc, submitted, collected, results, printed>>
    /\ UNCHANGED non_pool

\* The task returns (e.g. lines 56-65: it appends its log entry and returns
\* its result): the worker sets the future's result and is idle again.
TaskReturns(w) ==
    /\ w_pc[w] = "running"
    /\ futures' = [futures EXCEPT ![w_task[w]] = "value"]
    /\ execution_log' = Append(execution_log, <<w_task[w], w>>)
    /\ idle_semaphore' = idle_semaphore + 1
    /\ w_pc' = [w_pc EXCEPT ![w] = WorkerAfterTask(FALSE)]
    /\ w_task' = [w_task EXCEPT ![w] = 0]
    /\ UNCHANGED <<num_tasks, max_workers, work_queue, pool_threads,
                   started_by, starts, pool_pc, submitted, collected, results, printed>>
    /\ UNCHANGED non_pool

\* The task raises: the worker stores the exception in the future and is
\* idle again.
TaskRaises(w) ==
    /\ w_pc[w] = "running"
    /\ futures' = [futures EXCEPT ![w_task[w]] = "exception"]
    /\ idle_semaphore' = idle_semaphore + 1
    /\ w_pc' = [w_pc EXCEPT ![w] = WorkerAfterTask(TRUE)]
    /\ w_task' = [w_task EXCEPT ![w] = 0]
    /\ UNCHANGED <<num_tasks, max_workers, work_queue, pool_threads,
                   started_by, starts, execution_log, pool_pc, submitted,
                   collected, results, printed>>
    /\ UNCHANGED non_pool

\* Lines 187-190: as_completed yields a finished future that holds a
\* result; it is appended to results.
CollectResult(t) ==
    /\ pool_pc = "collect"
    /\ t \in Submitted \ collected
    /\ futures[t] = "value"
    /\ collected' = collected \cup {t}
    /\ results' = AfterAppend(results, t)
    /\ UNCHANGED <<num_tasks, max_workers, work_queue, futures, pool_threads,
                   idle_semaphore, w_pc, w_task, started_by, starts,
                   execution_log, pool_pc, submitted, printed>>
    /\ UNCHANGED non_pool

\* Lines 187-192: as_completed yields a finished future that holds an
\* exception; future.result() re-raises it and the handler prints it.  An
\* exception the handler did not catch would leave the loop and the `with`
\* block, whose exit calls shutdown(wait=True), and reach the caller.
CollectException(t) ==
    /\ pool_pc = "collect"
    /\ t \in Submitted \ collected
    /\ futures[t] = "exception"
    /\ collected' = collected \cup {t}
    /\ IF HandlerCatches(futures[t])
       THEN /\ printed' = Append(printed, t)
            /\ UNCHANGED <<pool_pc, work_queue>>
       ELSE /\ pool_pc' = "unwind"
            /\ work_queue' = Append(work_queue, WakeUp)
            /\ UNCHANGED printed
    /\ UNCHANGED <<num_tasks, max_workers, futures, pool_threads,
                   idle_semaphore, w_pc, w_task, started_by, starts,
                   execution_log, submitted, results>>
    /\ UNCHANGED non_pool

\* Lines 178, 187: as_completed is exhausted; leaving the `with` block calls
\* shutdown(wait=True), which puts the wake-up item on the queue.
CollectDone ==
    /\ pool_pc = "collect"
    /\ collected = Submitted
    /\ pool_pc' = "shutdown"
    /\ work_queue' = Append(work_queue, WakeUp)
    /\ UNCHANGED <<num_tasks, max_workers, futures, pool_threads,
                   idle_semaphore, w_pc, w_task, started_by, starts,
                   execution_log, submitted, collected, results, printed>>
    /\ UNCHANGED non_pool

\* A worker takes the wake-up item after shutdown: it puts it back for the
\* other workers and returns.
WorkerExit(w) ==
    /\ w_pc[w] = "waiting"
    /\ work_queue # <<>>
    /\ Head(work_queue) = WakeUp
    /\ work_queue' = Append(Tail(work_queue), WakeUp)
    /\ w_pc' = [w_pc EXCEPT ![w] = "exited"]
    /\ UNCHANGED <<num_tasks, max_workers, futures, pool_threads,
                   idle_semaphore, w_task, started_by, starts,
                   execution_log, pool_pc, submitted, collected, results, printed>>
    /\ UNCHANGED non_pool

AllWorkersExited == \A w \in 1..pool_threads : w_pc[w] = "exited"

\* Lines 178, 194-196: shutdown(wait=True) has joined every worker thread;
\* parallel_execution returns parallel_time.
PoolReturn ==
    /\ pool_pc = "shutdown"
    /\ AllWorkersExited
    /\ pool_pc' = "returned"
    /\ UNCHANGED <<num_tasks, max_workers, work_queue, futures, pool_threads,
                   idle_semaphore, w_pc, w_task, started_by, starts,
                   execution_log, submitted, collected, results, printed>>
    /\ UNCHANGED non_pool

\* The steps of worker thread w.
Worker(w) == WorkerTake(w) \/ TaskReturns(w) \/ TaskRaises(w) \/ WorkerExit(w)

\* The steps of parallel_execution.
PoolMain ==
    \/ SubmitTask
    \/ SubmitDone
    \/ \E t \in Tasks : CollectResult(t)
    \/ \E t \in Tasks : CollectException(t)
    \/ CollectDone
    \/ PoolReturn

NextPool ==
    \/ SubmitTask
    \/ SubmitDone
    \/ \E w \in Workers : WorkerTake(w)
    \/ \E w \in Workers : TaskReturns(w)
    \/ \E w \in Workers : TaskRaises(w)
    \/ \E t \in Tasks : CollectResult(t)
    \/ \E t \in Tasks : CollectException(t)
    \/ CollectDone
    \/ \E w \in Workers : WorkerExit(w)
    \/ PoolReturn

InitPool == PoolConstructed /\ ParkedCounter /\ ParkedBakery /\ ParkedTable

SpecPool == InitPool /\ [][NextPool]_vars

\* Every worker thread and parallel_execution itself keep running, and
\* every task terminates.
SpecPoolFair ==
    /\ SpecPool
    /\ \A w \in Workers : WF_vars(Worker(w))
    /\ WF_vars(PoolMain)

(***************************************************************************)
(* Claims about part4_thread_pool.py                                       *)
(***************************************************************************)
Running == {t \in Tasks : futures[t] = "running"}

RunningOn(w) == {t \in Tasks : futures[t] = "running" /\ w \in started_by[t]}

\* The number of times task t occurs in a list of tasks.
Occurrences(list, t) == Cardinality({k \in 1..Len(list) : list[k] = t})

\* C12: every submitted task is started exactly once and by exactly one
\* worker thread: no task is begun twice or by two workers, a task that is
\* running or finished was begun once, and when parallel_execution returns
\* no submitted task is left unstarted.
C12_StartedExactlyOnce ==
    /\ \A t \in Tasks :
          /\ starts[t] <= 1
          /\ Cardinality(started_by[t]) = starts[t]
          /\ futures[t] \in {"running", "value", "exception"} => starts[t] = 1
    /\ pool_pc = "returned" => \A t \in Submitted : starts[t] = 1

C12_Witness ==
    /\ pool_pc = "returned"
    /\ num_tasks = 3
    /\ max_workers = 2
    /\ started_by[1] = {1}
    /\ started_by[2] = {2}
    /\ started_by[3] = {2}

\* C13: parallel_execution returns only after every submitted task has
\* completed or raised (none is pending or running when it returns), and
\* with workers that keep running and tasks that terminate it does
\* eventually return.
C13_ReturnsAfterAllTasks ==
    /\ [](pool_pc = "returned" => \A t \in Submitted : FutureDone(t))
    /\ <>(pool_pc = "returned")

C13_Witness ==
    /\ pool_pc = "returned"
    /\ num_tasks = 3
    /\ max_workers = 1
    /\ futures[1] = "exception"
    /\ futures[3] = "value"

C16_AtMostWRunning ==
    /\ Cardinality(Running) <= max_workers
    /\ pool_threads <= max_workers
    /\ \A w \in Workers :
          /\ Cardinality(RunningOn(w)) <= 1
          /\ w_pc[w] = "running" <=> RunningOn(w) = {w_task[w]}

C16_Witness ==
    /\ max_workers = 2
    /\ num_tasks = 3
    /\ Running = {1, 2}
    /\ work_queue = <<3>>

====
